---- MODULE Spec2Model ----
(***************************************************************************)
(* kustomize-upstream (src/src/main.rs): fetch a multi-document manifest,  *)
(* classify every resource into a package with ordered split rules, write *)
(* one file per resource and one descriptor per package.                   *)
(*                                                                         *)
(* Strings are sequences of one-character strings, so that to_lowercase,   *)
(* concatenation by the template renderer, decimal formatting and the      *)
(* splitting of a path at "/" are computed and not assumed.                *)
(* Option<T> is a sequence of length at most one: None is << >>, Some(x)   *)
(* is <<x>>.                                                               *)
(***************************************************************************)
EXTENDS Integers, Sequences, FiniteSets, TLC

VARIABLES
    config,        \* Config after serde_yaml::from_str (main.rs:124)
    pc,            \* position of main
    exit,          \* process exit status, "running" while main runs
    idx,           \* let mut idx = 0u32 (main.rs:126)
    pos,           \* number of manifests the for loop has taken (main.rs:142)
    manifests,     \* YamlLoader::load_from_str result (main.rs:140)
    resource,      \* let mut resource, as Option (main.rs:146)
    package_name,  \* let package_name, as Option (main.rs:156)
    packages,      \* HashMap<String, Package> (main.rs:127)
    remaining,     \* keys the final for loop has still to visit (main.rs:193)
    dirs,          \* file system: the directories that exist
    files,         \* file system: file path -> content
    mkdirs,        \* history: the paths create_dir_all was called with
    writes,        \* history: the fs::write calls that succeeded, in order
    resp,          \* outcome of reqwest::blocking::get, as Option (main.rs:131)
    body,          \* outcome of reading and parsing the response, as Option
    run,           \* which run of the program this is
    prevRun,       \* what the previous run fetched and the files it left, as Option
    call,          \* arguments of the function applied on its own
    ret            \* its result, as Option

vars == <<config, pc, exit, idx, pos, manifests, resource, package_name,
          packages, remaining, dirs, files, mkdirs, writes, resp, body, run,
          prevRun, call, ret>>

driverVars == <<config, pc, exit, idx, pos, manifests, resource, package_name,
                packages, remaining, dirs, files, mkdirs, writes, resp, body, run,
                prevRun>>

(***************************************************************************)
(* Bounds                                                                  *)
(***************************************************************************)
MaxRules == 2
MaxDocs == 3
MaxNum == 1002

(***************************************************************************)
(* Option and strings                                                      *)
(***************************************************************************)
None == << >>

Some(x) == <<x>>

Unwrap(o) == o[1]

\* (upper, lower) pairs of the letters the model's strings are written with
CasePairs == { <<"C", "c">>, <<"M", "m">>, <<"S", "s">>, <<"X", "x">>, <<"N", "n">> }

LowerChar(c) ==
    IF \E p \in CasePairs : p[1] = c
    THEN (CHOOSE p \in CasePairs : p[1] = c)[2]
    ELSE c

to_lowercase(s) == [i \in 1..Len(s) |-> LowerChar(s[i])]

(***************************************************************************)
(* Matcher::do_match                                                       *)
(***************************************************************************)
do_match_exact(self, res) ==
    IF self.kind # None /\ Unwrap(self.kind) # res.kind
    THEN FALSE
    ELSE IF self.name # None /\ Unwrap(self.name) # res.name
    THEN FALSE
    ELSE IF self.namespace # None /\ self.namespace # res.namespace
    THEN FALSE
    ELSE TRUE

do_match(self, res) ==
    IF self.kind # None /\ to_lowercase(Unwrap(self.kind)) # to_lowercase(res.kind)
    THEN FALSE
    ELSE IF self.name # None /\ to_lowercase(Unwrap(self.name)) # to_lowercase(res.name)
    THEN FALSE
    ELSE IF self.namespace # None
            /\ [i \in 1..Len(self.namespace) |-> to_lowercase(self.namespace[i])]
                 # [i \in 1..Len(res.namespace) |-> to_lowercase(res.namespace[i])]
    THEN FALSE
    ELSE TRUE

(***************************************************************************)
(* Config::classify                                                        *)
(***************************************************************************)
RECURSIVE classifyFrom(_, _, _)
classifyFrom(self, res, i) ==
    IF i > Len(self.SplitRules)
    THEN Some(self.DefaultPackageSpec.defaultName)
    ELSE IF do_match(self.SplitRules[i].matcher, res)
    THEN self.SplitRules[i].packageName
    ELSE classifyFrom(self, res, i + 1)

RECURSIVE classifySkippingDrops(_, _, _)
classifySkippingDrops(self, res, i) ==
    IF i > Len(self.SplitRules)
    THEN Some(self.DefaultPackageSpec.defaultName)
    ELSE IF do_match(self.SplitRules[i].matcher, res)
            /\ self.SplitRules[i].packageName # None
    THEN self.SplitRules[i].packageName
    ELSE classifySkippingDrops(self, res, i + 1)

classify_first_named(self, res) == classifySkippingDrops(self, res, 1)

classify(self, res) == classifyFrom(self, res, 1)

(***************************************************************************)
(* tera::Value and Pad3Fn::filter                                          *)
(***************************************************************************)
\* serde_json::Number is PosInt(u64), NegInt(i64) or Float(f64); a Float is
\* kept as the pair (integral part, has a fraction).
PosInt(n) == [ty |-> "Number", num |-> "PosInt", n |-> n, s |-> << >>]

NegInt(n) == [ty |-> "Number", num |-> "NegInt", n |-> n, s |-> << >>]

Float(n) == [ty |-> "Number", num |-> "Float", n |-> n, s |-> << >>]

String(s) == [ty |-> "String", num |-> "", n |-> 0, s |-> s]

Null == [ty |-> "Null", num |-> "", n |-> 0, s |-> << >>]

Bool(b) == [ty |-> "Bool", num |-> "", n |-> IF b THEN 1 ELSE 0, s |-> << >>]

\* tera::Result<tera::Value>
Ok(v) == [ok |-> TRUE, val |-> v, err |-> ""]

Err(msg) == [ok |-> FALSE, val |-> Null, err |-> msg]

DigitChar(d) == <<"0", "1", "2", "3", "4", "5", "6", "7", "8", "9">>[d + 1]

\* Display of an unsigned integer: its decimal digits, no sign, no padding
RECURSIVE Decimal(_)
Decimal(n) ==
    IF n < 10 THEN <<DigitChar(n)>>
    ELSE Append(Decimal(n \div 10), DigitChar(n % 10))

RECURSIVE ZeroPad(_, _)
ZeroPad(s, width) == IF Len(s) >= width THEN s ELSE ZeroPad(<<"0">> \o s, width)

\* format!("{:03}", num): flag 0 with width 3 is a minimum width
Format03(n) == ZeroPad(Decimal(n), 3)

\* Number::as_u64
as_u64(v) == IF v.num = "PosInt" THEN Some(v.n) ELSE None

Pad3Truncating(value) ==
    IF value.ty = "Number"
    THEN IF as_u64(value) # None
         THEN Ok(String(Format03(Unwrap(as_u64(value)) % 1000)))
         ELSE Err("expect number")
    ELSE Err("expect number")

Pad3Fn(value) ==
    IF value.ty = "Number"
    THEN IF as_u64(value) # None
         THEN Ok(String(Format03(Unwrap(as_u64(value)))))
         ELSE Err("expect number")
    ELSE Err("expect number")

(***************************************************************************)
(* Tera templates.  A template is a sequence of tokens: literal text,      *)
(* {{ var }}, {{ var | pad3 }}, and                                        *)
(* {% for resource in package.resources %}{{resource.filename}}\n{% endfor %}. *)
(* A context maps the dotted names it defines to values; package.resources *)
(* is kept beside it.                                                      *)
(***************************************************************************)
Lit(s) == [t |-> "lit", v |-> "", s |-> s]

Var(name) == [t |-> "var", v |-> name, s |-> << >>]

Pad3Var(name) == [t |-> "pad3", v |-> name, s |-> << >>]

ForResourceFilenames == [t |-> "for", v |-> "package.resources", s |-> << >>]

\* Result<String, tera::Error> of a render
Rendered(s) == [ok |-> TRUE, val |-> s, err |-> ""]

RenderErr(msg) == [ok |-> FALSE, val |-> << >>, err |-> msg]

\* how the renderer writes a value: a string as it is, an unsigned integer in
\* decimal, null as nothing
ValueRender(v) ==
    IF v.ty = "String" THEN v.s
    ELSE IF v.ty = "Number" /\ v.num = "PosInt" THEN Decimal(v.n)
    ELSE << >>

OptValue(o) == IF o = None THEN Null ELSE String(Unwrap(o))

RECURSIVE FilenameLines(_)
FilenameLines(resources) ==
    IF resources = << >> THEN << >>
    ELSE ValueRender(OptValue(Head(resources).filename)) \o <<"\n">>
         \o FilenameLines(Tail(resources))

RenderToken(tok, ctx) ==
    IF tok.t = "lit" THEN Rendered(tok.s)
    ELSE IF tok.t = "var"
    THEN IF tok.v \in DOMAIN ctx.scalars
         THEN Rendered(ValueRender(ctx.scalars[tok.v]))
         ELSE RenderErr("variable not found")
    ELSE IF tok.t = "pad3"
    THEN IF tok.v \in DOMAIN ctx.scalars
         THEN IF Pad3Fn(ctx.scalars[tok.v]).ok
              THEN Rendered(ValueRender(Pad3Fn(ctx.scalars[tok.v]).val))
              ELSE RenderErr(Pad3Fn(ctx.scalars[tok.v]).err)
         ELSE RenderErr("variable not found")
    ELSE IF ctx.resources # None
    THEN Rendered(FilenameLines(Unwrap(ctx.resources)))
    ELSE RenderErr("variable not found")

RECURSIVE RenderFrom(_, _, _)
RenderFrom(template, ctx, i) ==
    IF i > Len(template) THEN Rendered(<< >>)
    ELSE LET head == RenderToken(template[i], ctx)
             rest == RenderFrom(template, ctx, i + 1)
         IN  IF ~head.ok THEN head
             ELSE IF ~rest.ok THEN rest
             ELSE Rendered(head.val \o rest.val)

\* tera.render(name, &context)
render(template, ctx) == RenderFrom(template, ctx, 1)

\* context.insert("top", &self.Top)
TopScalars(self) ==
    ("top.name" :> String(self.Top.name))
    @@ ("top.version" :> String(self.Top.version))
    @@ ("top.source" :> OptValue(self.Top.source))

\* context.insert("packageName", &package.name)
PackageNameScalars(package) == ("packageName" :> String(package.name))

\* context.insert("resource", &resource)
ResourceScalars(res) ==
    ("resource.index" :> PosInt(res.index))
    @@ ("resource.name" :> String(res.name))
    @@ ("resource.kind" :> String(res.kind))
    @@ ("resource.namespace" :> OptValue(res.namespace))
    @@ ("resource.filename" :> OptValue(res.filename))
    @@ ("resource.path" :> OptValue(res.path))

render_source(self) ==
    render(self.Top.sourceTemplate,
           [scalars |-> TopScalars(self), resources |-> None])

render_resource_filename(self, package, res) ==
    render(self.DefaultPackageSpec.resourceSpec.filenameTemplate,
           [scalars |-> TopScalars(self) @@ PackageNameScalars(package)
                        @@ ResourceScalars(res),
            resources |-> None])

render_resource_path(self, package, res) ==
    render(self.DefaultPackageSpec.resourceSpec.pathTemplate,
           [scalars |-> TopScalars(self) @@ PackageNameScalars(package)
                        @@ ResourceScalars(res),
            resources |-> None])

render_package_filename(self, package) ==
    render(self.DefaultPackageSpec.filenameTemplate,
           [scalars |-> TopScalars(self) @@ PackageNameScalars(package),
            resources |-> None])

render_package_path(self, package) ==
    render(self.DefaultPackageSpec.pathTemplate,
           [scalars |-> TopScalars(self) @@ PackageNameScalars(package),
            resources |-> None])

\* context.insert("package", &package): package.name and package.resources
render_package_descriptor(self, package) ==
    render(self.DefaultPackageSpec.template,
           [scalars |-> TopScalars(self) @@ ("package.name" :> String(package.name)),
            resources |-> Some(package.resources)])

(***************************************************************************)
(* Paths and the file system                                               *)
(***************************************************************************)
\* the components of a path: its text split at "/", empty components dropped
RECURSIVE SplitFrom(_, _, _)
SplitFrom(s, i, cur) ==
    IF i > Len(s)
    THEN IF cur = << >> THEN << >> ELSE <<cur>>
    ELSE IF s[i] = "/"
    THEN (IF cur = << >> THEN << >> ELSE <<cur>>) \o SplitFrom(s, i + 1, << >>)
    ELSE SplitFrom(s, i + 1, Append(cur, s[i]))

Components(s) == SplitFrom(s, 1, << >>)

IsAbsolute(s) == s # << >> /\ s[1] = "/"

\* Path::join: an absolute argument replaces the path, otherwise it is
\* appended after a separator
PathJoin(path, name) ==
    IF IsAbsolute(name) THEN name
    ELSE IF path = << >> \/ path[Len(path)] = "/" THEN path \o name
    ELSE path \o <<"/">> \o name

Prefixes(comps) == { SubSeq(comps, 1, n) : n \in 0..Len(comps) }

\* fs::create_dir_all succeeds unless a component of the path is a file
CanCreateDirAll(path) ==
    \A p \in Prefixes(Components(path)) : p \notin DOMAIN files

\* fs::write succeeds when the parent directory exists and the path is no directory
CanWrite(filepath) ==
    LET comps == Components(filepath)
    IN  /\ comps # << >>
        /\ SubSeq(comps, 1, Len(comps) - 1) \in dirs
        /\ comps \notin dirs

\* YamlEmitter::dump of the manifest
Dump(manifest) == [doc |-> Some(manifest), text |-> << >>]

Text(s) == [doc |-> None, text |-> s]

(***************************************************************************)
(* Resource::from_manifest                                                 *)
(***************************************************************************)
\* A document is what the driver reads of it: kind, metadata.name and
\* metadata.namespace, each an Option (None: absent or not a string).
\* The result is None, Some(resource), or the panic of the unwrap of name.
from_manifest(manifest, i) ==
    IF manifest.kind = None THEN [panic |-> FALSE, res |-> None]
    ELSE IF manifest.name = None THEN [panic |-> TRUE, res |-> None]
    ELSE [panic |-> FALSE,
          res |-> Some([index |-> i,
                        name |-> Unwrap(manifest.name),
                        kind |-> Unwrap(manifest.kind),
                        namespace |-> manifest.namespace,
                        filename |-> None,
                        path |-> None])]

(***************************************************************************)
(* The inputs: configurations, responses, documents                        *)
(***************************************************************************)
Matcher(kind, name, namespace) ==
    [kind |-> kind, name |-> name, namespace |-> namespace]

SplitRule(matcher, packageName) == [matcher |-> matcher, packageName |-> packageName]

\* the rule of the usage text: one kind, one package
RulesOne == << SplitRule(Matcher(Some(<<"c", "m">>), None, None), Some(<<"c">>)) >>

\* a rule that drops, before a rule that would place the same resources
RulesDropFirst ==
    << SplitRule(Matcher(Some(<<"s">>), None, None), None),
       SplitRule(Matcher(None, None, Some(<<"N">>)), Some(<<"c">>)) >>

DriverRuleLists == { RulesOne, RulesDropFirst }

SourceTemplates == { <<Lit(<<"u", "/">>), Var("top.version")>> }

ResourcePathTemplates ==
    { <<Lit(<<"o", "/">>), Var("packageName")>>,
      <<Lit(<<"o">>)>> }

ResourceFilenameTemplates ==
    { <<Pad3Var("resource.index"), Lit(<<"_">>), Var("resource.kind")>>,
      <<Lit(<<"r">>)>>,
      <<Var("package.name")>> }

PackagePathTemplates ==
    { <<Lit(<<"o", "/">>), Var("packageName")>>,
      <<Lit(<<"o">>)>>,
      <<Lit(<<"p", "/">>), Var("packageName")>> }

PackageFilenameTemplates == { <<Lit(<<"k">>)>> }

DescriptorTemplates ==
    { <<Var("package.name"), Lit(<<":", "\n">>), ForResourceFilenames>>,
      <<Var("packageName")>> }

MkConfig(st, rules, rp, rf, pp, pf, dt) ==
    [Top |-> [name |-> <<"t">>, version |-> <<"1">>, sourceTemplate |-> st,
              source |-> None],
     DefaultPackageSpec |->
        [template |-> dt, defaultName |-> <<"m">>, filenameTemplate |-> pf,
         pathTemplate |-> pp,
         resourceSpec |-> [pathTemplate |-> rp, filenameTemplate |-> rf]],
     SplitRules |-> rules]

\* a source template that names a variable the context does not have
BadSourceConfig ==
    MkConfig(<<Var("version")>>, RulesOne, <<Lit(<<"o">>)>>, <<Lit(<<"r">>)>>,
             <<Lit(<<"o">>)>>, <<Lit(<<"k">>)>>, <<ForResourceFilenames>>)

Configs ==
    { MkConfig(st, rules, rp, rf, pp, pf, dt) :
        st \in SourceTemplates, rules \in DriverRuleLists,
        rp \in ResourcePathTemplates, rf \in ResourceFilenameTemplates,
        pp \in PackagePathTemplates, pf \in PackageFilenameTemplates,
        dt \in DescriptorTemplates }
    \cup { BadSourceConfig }

Doc(kind, name, namespace) == [kind |-> kind, name |-> name, namespace |-> namespace]

DocSet ==
    { Doc(Some(<<"C", "m">>), Some(<<"x">>), None),
      Doc(Some(<<"S">>), Some(<<"y">>), Some(<<"n">>)),
      Doc(None, Some(<<"x">>), None),
      Doc(Some(<<"c", "m">>), None, None) }

DocSeqs == UNION { [1..n -> DocSet] : n \in 0..MaxDocs }

\* get() fails in transport, or answers with a status
Responses ==
    { [transport_error |-> TRUE, status |-> 0] }
    \cup { [transport_error |-> FALSE, status |-> st] : st \in {200, 201, 204, 404, 503} }

\* read_to_string fails, or the text does not parse, or it parses into documents
Bodies ==
    { [readable |-> FALSE, parses |-> FALSE, docs |-> << >>],
      [readable |-> TRUE, parses |-> FALSE, docs |-> << >>] }
    \cup { [readable |-> TRUE, parses |-> TRUE, docs |-> d] : d \in DocSeqs }

(***************************************************************************)
(* main                                                                    *)
(***************************************************************************)
NoCall == [fn |-> "none"]

Init ==
    /\ config \in Configs
    /\ pc = "start"
    /\ exit = "running"
    /\ idx = 0
    /\ pos = 0
    /\ manifests = << >>
    /\ resource = None
    /\ package_name = None
    /\ packages = << >>
    /\ remaining = {}
    /\ dirs = { << >> }
    /\ files = << >>
    /\ mkdirs = {}
    /\ writes = << >>
    /\ resp = None
    /\ body = None
    /\ run = 1
    /\ prevRun = None
    /\ call = NoCall
    /\ ret = None

\* the process ends: a panic, std::process::exit, or the return of main
Exit(status) ==
    /\ pc' = "done"
    /\ exit' = status

\* let source = config.render_source(); config.Top.source = Some(source.clone())
StartStep ==
    /\ pc = "start"
    /\ LET source == render_source(config)
       IN  IF source.ok
           THEN /\ config' = [config EXCEPT !.Top.source = Some(source.val)]
                /\ pc' = "fetch"
                /\ exit' = exit
           ELSE /\ Exit("PANIC")
                /\ config' = config
    /\ UNCHANGED <<idx, pos, manifests, resource, package_name, packages,
                   remaining, dirs, files, mkdirs, writes, resp, body, run,
                   prevRun, call, ret>>

\* a second run is given what the first one fetched
SameAsBefore(field, value) ==
    IF prevRun = None THEN TRUE ELSE Unwrap(prevRun)[field] = Some(value)

\* reqwest::blocking::get(source).unwrap(); status != OK exits UNAVAILABLE
FetchStep ==
    /\ pc = "fetch"
    /\ \E r \in Responses :
          /\ SameAsBefore("resp", r)
          /\ resp' = Some(r)
          /\ IF r.transport_error THEN Exit("PANIC")
             ELSE IF r.status # 200 THEN Exit("UNAVAILABLE")
             ELSE pc' = "load" /\ exit' = exit
    /\ UNCHANGED <<config, idx, pos, manifests, resource, package_name, packages,
                   remaining, dirs, files, mkdirs, writes, body, run, prevRun,
                   call, ret>>

\* resp.read_to_string(..)?; YamlLoader::load_from_str(..).unwrap()
LoadStep ==
    /\ pc = "load"
    /\ \E b \in Bodies :
          /\ SameAsBefore("body", b)
          /\ body' = Some(b)
          /\ IF ~b.readable
             THEN Exit("FAILURE") /\ manifests' = manifests
             ELSE IF ~b.parses
             THEN Exit("PANIC") /\ manifests' = manifests
             ELSE /\ manifests' = b.docs
                  /\ pc' = "loop"
                  /\ exit' = exit
    /\ UNCHANGED <<config, idx, pos, resource, package_name, packages, remaining,
                   dirs, files, mkdirs, writes, resp, run, prevRun, call, ret>>

\* a skipped document leaves the counter where it is
NextDocStepSkipKeepsIdx ==
    /\ pc = "loop"
    /\ pos < Len(manifests)
    /\ LET made == from_manifest(manifests[pos + 1], idx)
       IN  /\ pos' = pos + 1
           /\ IF made.panic
              THEN Exit("PANIC") /\ UNCHANGED <<idx, resource>>
              ELSE IF made.res = None
              THEN /\ idx' = idx
                   /\ resource' = None
                   /\ UNCHANGED <<pc, exit>>
              ELSE /\ idx' = idx + 1
                   /\ resource' = made.res
                   /\ pc' = "classify"
                   /\ exit' = exit
    /\ UNCHANGED <<config, manifests, package_name, packages, remaining, dirs,
                   files, mkdirs, writes, resp, body, run, prevRun, call, ret>>

\* for manifest in manifests: merge_keys, Resource::from_manifest(&manifest, idx),
\* idx += 1 on both branches, continue when there is no kind
NextDocStep ==
    /\ pc = "loop"
    /\ pos < Len(manifests)
    /\ LET made == from_manifest(manifests[pos + 1], idx)
       IN  /\ pos' = pos + 1
           /\ IF made.panic
              THEN Exit("PANIC") /\ UNCHANGED <<idx, resource>>
              ELSE IF made.res = None
              THEN /\ idx' = idx + 1
                   /\ resource' = None
                   /\ UNCHANGED <<pc, exit>>
              ELSE /\ idx' = idx + 1
                   /\ resource' = made.res
                   /\ pc' = "classify"
                   /\ exit' = exit
    /\ UNCHANGED <<config, manifests, package_name, packages, remaining, dirs,
                   files, mkdirs, writes, resp, body, run, prevRun, call, ret>>

\* match config.classify(&resource) { Some(n) => n, None => continue }
ClassifyStep ==
    /\ pc = "classify"
    /\ LET found == classify(config, Unwrap(resource))
       IN  IF found = None
           THEN /\ pc' = "loop"
                /\ resource' = None
                /\ package_name' = None
           ELSE /\ pc' = "lookup"
                /\ package_name' = found
                /\ resource' = resource
    /\ UNCHANGED <<config, exit, idx, pos, manifests, packages, remaining, dirs,
                   files, mkdirs, writes, resp, body, run, prevRun, call, ret>>

\* packages.get_mut(&package_name), or insert a Package with no resources
LookupStep ==
    /\ pc = "lookup"
    /\ LET name == Unwrap(package_name)
       IN  packages' =
             IF name \in DOMAIN packages THEN packages
             ELSE (name :> [name |-> name, resources |-> << >>]) @@ packages
    /\ pc' = "render"
    /\ UNCHANGED <<config, exit, idx, pos, manifests, resource, package_name,
                   remaining, dirs, files, mkdirs, writes, resp, body, run,
                   prevRun, call, ret>>

\* render_resource_filename, render_resource_path (each unwraps its render),
\* resource.filename = Some(..), resource.path = Some(..)
RenderStep ==
    /\ pc = "render"
    /\ LET package == packages[Unwrap(package_name)]
           filename == render_resource_filename(config, package, Unwrap(resource))
           pathname == render_resource_path(config, package, Unwrap(resource))
       IN  IF filename.ok /\ pathname.ok
           THEN /\ resource' = Some([Unwrap(resource) EXCEPT
                                       !.filename = Some(filename.val),
                                       !.path = Some(pathname.val)])
                /\ pc' = "push"
                /\ exit' = exit
           ELSE /\ Exit("PANIC")
                /\ resource' = resource
    /\ UNCHANGED <<config, idx, pos, manifests, package_name, packages, remaining,
                   dirs, files, mkdirs, writes, resp, body, run, prevRun, call, ret>>

\* the resource is pushed onto a clone of the package, not onto the map's entry
PushStepOntoClone ==
    /\ pc = "push"
    /\ packages' = packages
    /\ pc' = "mkdir"
    /\ UNCHANGED <<config, exit, idx, pos, manifests, resource, package_name,
                   remaining, dirs, files, mkdirs, writes, resp, body, run,
                   prevRun, call, ret>>

\* the resource is put in front of the list
PushStepInFront ==
    /\ pc = "push"
    /\ packages' = [packages EXCEPT ![Unwrap(package_name)].resources =
                                       <<Unwrap(resource)>> \o @]
    /\ pc' = "mkdir"
    /\ UNCHANGED <<config, exit, idx, pos, manifests, resource, package_name,
                   remaining, dirs, files, mkdirs, writes, resp, body, run,
                   prevRun, call, ret>>

\* package.resources.push(resource)
PushStep ==
    /\ pc = "push"
    /\ packages' = [packages EXCEPT ![Unwrap(package_name)].resources =
                                       Append(@, Unwrap(resource))]
    /\ pc' = "mkdir"
    /\ UNCHANGED <<config, exit, idx, pos, manifests, resource, package_name,
                   remaining, dirs, files, mkdirs, writes, resp, body, run,
                   prevRun, call, ret>>

\* fs::create_dir_all(&path).unwrap()
MkdirStep ==
    /\ pc = "mkdir"
    /\ LET pathname == Unwrap(Unwrap(resource).path)
       IN  /\ mkdirs' = mkdirs \cup {pathname}
           /\ IF CanCreateDirAll(pathname)
              THEN /\ dirs' = dirs \cup Prefixes(Components(pathname))
                   /\ pc' = "write"
                   /\ exit' = exit
              ELSE /\ Exit("PANIC")
                   /\ dirs' = dirs
    /\ UNCHANGED <<config, idx, pos, manifests, resource, package_name, packages,
                   remaining, files, writes, resp, body, run, prevRun, call, ret>>

\* an entry of the history of writes
WriteEvent(what, name, pathname, filepath, resources) ==
    [what |-> what, package |-> name, path |-> pathname,
     file |-> Components(filepath), resources |-> resources, pos |-> pos]

\* path.join(filename), emitter.dump(&manifest), fs::write(..).expect(..)
WriteStep ==
    /\ pc = "write"
    /\ LET pathname == Unwrap(Unwrap(resource).path)
           filepath == PathJoin(pathname, Unwrap(Unwrap(resource).filename))
       IN  IF CanWrite(filepath)
           THEN /\ files' = (Components(filepath) :> Dump(manifests[pos])) @@ files
                /\ writes' = Append(writes,
                                WriteEvent("resource", Unwrap(package_name), pathname,
                                           filepath, << >>))
                /\ pc' = "loop"
                /\ resource' = None
                /\ package_name' = None
                /\ exit' = exit
           ELSE /\ Exit("PANIC")
                /\ UNCHANGED <<files, writes, resource, package_name>>
    /\ UNCHANGED <<config, idx, pos, manifests, packages, remaining, dirs, mkdirs,
                   resp, body, run, prevRun, call, ret>>

\* the for loop over the manifests ends; for (_package_name, package) in packages
LoopEndStep ==
    /\ pc = "loop"
    /\ pos = Len(manifests)
    /\ pc' = "descriptors"
    /\ remaining' = DOMAIN packages
    /\ UNCHANGED <<config, exit, idx, pos, manifests, resource, package_name,
                   packages, dirs, files, mkdirs, writes, resp, body, run, prevRun,
                   call, ret>>

\* the loop over the packages stops after its first descriptor
DescriptorStepOnlyFirst ==
    /\ pc = "descriptors"
    /\ \E name \in remaining :
          LET package == packages[name]
              pathname == render_package_path(config, package)
              filename == render_package_filename(config, package)
              filepath == PathJoin(pathname.val, filename.val)
              package_yaml == render_package_descriptor(config, package)
          IN  IF pathname.ok /\ filename.ok /\ package_yaml.ok /\ CanWrite(filepath)
              THEN /\ files' = (Components(filepath) :> Text(package_yaml.val)) @@ files
                   /\ writes' = Append(writes,
                                   WriteEvent("descriptor", name, pathname.val,
                                              filepath, package.resources))
                   /\ remaining' = {}
                   /\ UNCHANGED <<pc, exit>>
              ELSE /\ Exit("PANIC")
                   /\ UNCHANGED <<files, writes, remaining>>
    /\ UNCHANGED <<config, idx, pos, manifests, resource, package_name, packages,
                   dirs, mkdirs, resp, body, run, prevRun, call, ret>>

\* one iteration of the loop over the packages, which a HashMap yields in any
\* order: render_package_path, render_package_filename,
\* render_package_descriptor (each unwraps its render), fs::write(..).expect(..)
DescriptorStep ==
    /\ pc = "descriptors"
    /\ \E name \in remaining :
          LET package == packages[name]
              pathname == render_package_path(config, package)
              filename == render_package_filename(config, package)
              filepath == PathJoin(pathname.val, filename.val)
              package_yaml == render_package_descriptor(config, package)
          IN  IF pathname.ok /\ filename.ok /\ package_yaml.ok /\ CanWrite(filepath)
              THEN /\ files' = (Components(filepath) :> Text(package_yaml.val)) @@ files
                   /\ writes' = Append(writes,
                                   WriteEvent("descriptor", name, pathname.val,
                                              filepath, package.resources))
                   /\ remaining' = remaining \ {name}
                   /\ UNCHANGED <<pc, exit>>
              ELSE /\ Exit("PANIC")
                   /\ UNCHANGED <<files, writes, remaining>>
    /\ UNCHANGED <<config, idx, pos, manifests, resource, package_name, packages,
                   dirs, mkdirs, resp, body, run, prevRun, call, ret>>

\* return Ok(())
FinishStep ==
    /\ pc = "descriptors"
    /\ remaining = {}
    /\ Exit("OK")
    /\ UNCHANGED <<config, idx, pos, manifests, resource, package_name, packages,
                   remaining, dirs, files, mkdirs, writes, resp, body, run, prevRun,
                   call, ret>>

\* the output directory is cleared and the program is run once more on the
\* same configuration file, and is given the same response
RerunStep ==
    /\ pc = "done"
    /\ run = 1
    /\ run' = 2
    /\ prevRun' = Some([files |-> files, resp |-> resp, body |-> body])
    /\ config' = [config EXCEPT !.Top.source = None]
    /\ pc' = "start"
    /\ exit' = "running"
    /\ idx' = 0
    /\ pos' = 0
    /\ manifests' = << >>
    /\ resource' = None
    /\ package_name' = None
    /\ packages' = << >>
    /\ remaining' = {}
    /\ dirs' = { << >> }
    /\ files' = << >>
    /\ mkdirs' = {}
    /\ writes' = << >>
    /\ resp' = None
    /\ body' = None
    /\ UNCHANGED <<call, ret>>

Next ==
    \/ StartStep
    \/ FetchStep
    \/ LoadStep
    \/ NextDocStep
    \/ ClassifyStep
    \/ LookupStep
    \/ RenderStep
    \/ PushStep
    \/ MkdirStep
    \/ WriteStep
    \/ LoopEndStep
    \/ DescriptorStep
    \/ FinishStep

Spec == Init /\ [][Next]_vars

NextTwoRuns == Next \/ RerunStep

SpecTwoRuns == Init /\ [][NextTwoRuns]_vars

(***************************************************************************)
(* The pure functions applied on their own: the arguments are drawn by the *)
(* initial state, main does not run.                                       *)
(***************************************************************************)
MainNotRun ==
    /\ config = BadSourceConfig
    /\ pc = "idle"
    /\ exit = "running"
    /\ idx = 0
    /\ pos = 0
    /\ manifests = << >>
    /\ resource = None
    /\ package_name = None
    /\ packages = << >>
    /\ remaining = {}
    /\ dirs = { << >> }
    /\ files = << >>
    /\ mkdirs = {}
    /\ writes = << >>
    /\ resp = None
    /\ body = None
    /\ run = 1
    /\ prevRun = None

MatchStrings == { <<"c", "m">>, <<"C", "m">>, <<"c">>, <<"S">>, << >> }

OptStrings == { None } \cup { Some(s) : s \in MatchStrings }

Matchers == { Matcher(k, n, ns) : k \in OptStrings, n \in OptStrings, ns \in OptStrings }

MkResource(i, name, kind, namespace) ==
    [index |-> i, name |-> name, kind |-> kind, namespace |-> namespace,
     filename |-> None, path |-> None]

MatchResources ==
    { MkResource(0, n, k, ns) : n \in MatchStrings, k \in MatchStrings, ns \in OptStrings }

InitMatch ==
    /\ MainNotRun
    /\ call \in { [fn |-> "do_match", matcher |-> m, resource |-> r] :
                     m \in Matchers, r \in MatchResources }
    /\ ret = None

ApplyDoMatch ==
    /\ call.fn = "do_match"
    /\ ret = None
    /\ ret' = Some(do_match(call.matcher, call.resource))
    /\ UNCHANGED <<driverVars, call>>

SpecMatch == InitMatch /\ [][ApplyDoMatch]_vars

ClassifyMatchers ==
    { Matcher(None, None, None),
      Matcher(Some(<<"c", "m">>), None, None),
      Matcher(Some(<<"s">>), None, None),
      Matcher(None, None, Some(<<"N">>)) }

ClassifyRules ==
    { SplitRule(m, p) : m \in ClassifyMatchers,
                        p \in { None, Some(<<"c">>), Some(<<"d">>) } }

ClassifyRuleLists == UNION { [1..n -> ClassifyRules] : n \in 0..MaxRules }

ClassifyResources ==
    { MkResource(0, <<"x">>, k, ns) : k \in { <<"C", "m">>, <<"S">> },
                                      ns \in { None, Some(<<"n">>) } }

InitClassify ==
    /\ MainNotRun
    /\ call \in { [fn |-> "classify",
                    config |-> [BadSourceConfig EXCEPT !.SplitRules = rules],
                    resource |-> r] :
                     rules \in ClassifyRuleLists, r \in ClassifyResources }
    /\ ret = None

ApplyClassify ==
    /\ call.fn = "classify"
    /\ ret = None
    /\ ret' = Some(classify(call.config, call.resource))
    /\ UNCHANGED <<driverVars, call>>

SpecClassify == InitClassify /\ [][ApplyClassify]_vars

Pad3Values ==
    { PosInt(n) : n \in 0..MaxNum }
    \cup { NegInt(0 - n) : n \in 1..3 }
    \cup { Float(n) : n \in {0, 7} }
    \cup { String(<<"7">>), String(<< >>), Null, Bool(TRUE), Bool(FALSE) }

InitPad3 ==
    /\ MainNotRun
    /\ call \in { [fn |-> "pad3", value |-> v] : v \in Pad3Values }
    /\ ret = None

ApplyPad3 ==
    /\ call.fn = "pad3"
    /\ ret = None
    /\ ret' = Some(Pad3Fn(call.value))
    /\ UNCHANGED <<driverVars, call>>

SpecPad3 == InitPad3 /\ [][ApplyPad3]_vars

(***************************************************************************)
(* Properties                                                              *)
(***************************************************************************)
Min(S) == CHOOSE x \in S : \A y \in S : x <= y

MatchingRules(rules, res) == { i \in 1..Len(rules) : do_match(rules[i].matcher, res) }

\* C1: classify returns the packageName of the first rule, in configured
\* order, whose matcher matches the resource, be it None (the resource is
\* dropped, whatever later rules say), and the default package name when no
\* rule matches.
C1_ClassifyFirstMatch ==
    ret # None =>
        LET rules == call.config.SplitRules
            matching == MatchingRules(rules, call.resource)
        IN  IF matching = {}
            THEN Unwrap(ret) = Some(call.config.DefaultPackageSpec.defaultName)
            ELSE Unwrap(ret) = rules[Min(matching)].packageName

\* the first matching rule drops, a later matching rule names a package, and
\* the resource is dropped
C1_Witness ==
    /\ ret # None
    /\ Unwrap(ret) = None
    /\ LET rules == call.config.SplitRules
           matching == MatchingRules(rules, call.resource)
       IN  /\ matching # {}
           /\ rules[Min(matching)].packageName = None
           /\ \E i \in matching : rules[i].packageName # None

SameLetter(a, b) == a = b \/ <<a, b>> \in CasePairs \/ <<b, a>> \in CasePairs

EqIgnoreCase(s, t) ==
    /\ Len(s) = Len(t)
    /\ \A i \in 1..Len(s) : SameLetter(s[i], t[i])

\* C2: do_match is true exactly when every set field of the matcher equals
\* the resource's field but for case; a set namespace never matches a resource
\* without namespace, an unset one matches with and without.
C2_DoMatchIgnoresCase ==
    ret # None =>
        LET m == call.matcher
            r == call.resource
        IN  Unwrap(ret) <=>
              /\ m.kind = None \/ EqIgnoreCase(Unwrap(m.kind), r.kind)
              /\ m.name = None \/ EqIgnoreCase(Unwrap(m.name), r.name)
              /\ \/ m.namespace = None
                 \/ /\ r.namespace # None
                    /\ EqIgnoreCase(Unwrap(m.namespace), Unwrap(r.namespace))

\* a match of three set fields, of which the kind differs in case only
C2_Witness ==
    /\ ret = Some(TRUE)
    /\ call.matcher.kind # None
    /\ call.matcher.name # None
    /\ call.matcher.namespace # None
    /\ Unwrap(call.matcher.kind) # call.resource.kind

IsDigit(c) == \E d \in 0..9 : DigitChar(d) = c

DigitOf(c) == CHOOSE d \in 0..9 : DigitChar(d) = c

RECURSIVE DecimalValue(_)
DecimalValue(s) ==
    IF s = << >> THEN 0
    ELSE 10 * DecimalValue(SubSeq(s, 1, Len(s) - 1)) + DigitOf(s[Len(s)])

IsNonNegativeInteger(v) == v.ty = "Number" /\ v.num = "PosInt"

\* C8 as stated: a non-negative integer gives a string of exactly 3 digits that
\* reads as the integer, anything else an error.
C8_FixedThreeDigits ==
    ret # None =>
        IF IsNonNegativeInteger(call.value)
        THEN /\ Unwrap(ret).ok
             /\ Unwrap(ret).val.ty = "String"
             /\ Len(Unwrap(ret).val.s) = 3
             /\ \A i \in 1..3 : IsDigit(Unwrap(ret).val.s[i])
             /\ DecimalValue(Unwrap(ret).val.s) = call.value.n
        ELSE ~Unwrap(ret).ok

\* C8 amended: a non-negative integer n gives its decimal digits, padded with
\* zeros on the left to at least 3 digits (exactly 3 below 1000, the unpadded
\* digits from 1000 on); any other value gives an error.
C8_AtLeastThreeDigits ==
    ret # None =>
        IF IsNonNegativeInteger(call.value)
        THEN LET out == Unwrap(ret).val.s
             IN  /\ Unwrap(ret).ok
                 /\ Unwrap(ret).val.ty = "String"
                 /\ Len(out) >= 3
                 /\ \A i \in 1..Len(out) : IsDigit(out[i])
                 /\ DecimalValue(out) = call.value.n
                 /\ Len(out) > 3 => out[1] # "0"
        ELSE ~Unwrap(ret).ok

\* pad3 of 1000 is the four digits of 1000
C8_Witness ==
    /\ ret # None
    /\ IsNonNegativeInteger(call.value)
    /\ call.value.n >= 1000
    /\ Unwrap(ret).ok
    /\ Len(Unwrap(ret).val.s) = 4

\* the resource main builds from the document at position k (from 0), if any
ResourceOfDocument(k) == from_manifest(manifests[k + 1], k).res

\* C3: the resource built from the k-th document (from 0) has index k; the
\* counter is one more for every document taken, skipped, dropped or
\* assigned, and the resources kept in the packages bear the index of the
\* document they come from.
C3_IndexIsDocumentPosition ==
    /\ resource # None =>
          /\ Unwrap(resource).index = pos - 1
          /\ ResourceOfDocument(pos - 1) # None
          /\ Unwrap(resource).kind = Unwrap(ResourceOfDocument(pos - 1)).kind
          /\ Unwrap(resource).name = Unwrap(ResourceOfDocument(pos - 1)).name
    /\ \A p \in DOMAIN packages :
          \A i \in 1..Len(packages[p].resources) :
             LET r == packages[p].resources[i]
             IN  /\ r.index < pos
                 /\ ResourceOfDocument(r.index) # None
                 /\ r.kind = Unwrap(ResourceOfDocument(r.index)).kind
                 /\ r.name = Unwrap(ResourceOfDocument(r.index)).name
                 /\ r.namespace = Unwrap(ResourceOfDocument(r.index)).namespace
    /\ \/ idx = pos
       \/ /\ exit = "PANIC"
          /\ pos > 0
          /\ from_manifest(manifests[pos], pos - 1).panic

\* document 0 is dropped by a rule, document 1 has no kind, and the resource
\* of document 2 has index 2
C3_Witness ==
    /\ pos = 3
    /\ resource # None
    /\ Unwrap(resource).index = 2
    /\ manifests[2].kind = None
    /\ ResourceOfDocument(0) # None
    /\ classify(config, Unwrap(ResourceOfDocument(0))) = None

\* C4: for every file written, resource file or descriptor, create_dir_all
\* was called with the file's rendered path before the write.
C4_MkdirBeforeEveryWrite ==
    \A i \in 1..Len(writes) : writes[i].path \in mkdirs

FetchFailed ==
    /\ resp # None
    /\ \/ Unwrap(resp).transport_error
       \/ Unwrap(resp).status \notin 200..299

\* C5: a fetch that fails, by a status outside 2xx or in transport, ends the
\* process with the status UNAVAILABLE and no file written; a 2xx answer is
\* no fetch failure.
C5_FetchFailureExitsUnavailable ==
    resp # None =>
        IF FetchFailed
        THEN exit = "UNAVAILABLE" /\ writes = << >> /\ DOMAIN files = {}
        ELSE exit # "UNAVAILABLE"

\* C6: a second run on the same configuration and the same response, from an
\* empty output directory, ends with the files of the first run.
C6_SameFilesOnRerun ==
    (run = 2 /\ pc = "done") =>
        /\ DOMAIN files = DOMAIN Unwrap(prevRun).files
        /\ \A f \in DOMAIN files : files[f] = Unwrap(prevRun).files[f]

\* the resources of the first n documents that classify puts in the package
\* `name`, in document order, as they are once their filename and path are set
RECURSIVE AssignedUpTo(_, _)
AssignedUpTo(name, n) ==
    IF n = 0 THEN << >>
    ELSE LET made == ResourceOfDocument(n - 1)
             package == [name |-> name, resources |-> << >>]
         IN  IF made # None /\ classify(config, Unwrap(made)) = Some(name)
             THEN Append(AssignedUpTo(name, n - 1),
                         [Unwrap(made) EXCEPT
                            !.filename = Some(render_resource_filename(
                                                config, package, Unwrap(made)).val),
                            !.path = Some(render_resource_path(
                                            config, package, Unwrap(made)).val)])
             ELSE AssignedUpTo(name, n - 1)

\* the names classify can return under the configuration
PackageNames ==
    { config.DefaultPackageSpec.defaultName }
    \cup { Unwrap(config.SplitRules[i].packageName) :
             i \in { j \in 1..Len(config.SplitRules) :
                       config.SplitRules[j].packageName # None } }

IsDescriptor(w) == w.what = "descriptor"

\* C7: when the run completes, one descriptor has been written for each
\* package name that has a resource and none for another name, each after all
\* the documents and all the resource files, each rendered with exactly the
\* resources of its package, their filenames set.
C7_OneDescriptorPerPackage ==
    exit = "OK" =>
        LET desc == SelectSeq(writes, IsDescriptor)
            all == Len(manifests)
        IN  /\ { desc[i].package : i \in 1..Len(desc) }
                 = { n \in PackageNames : AssignedUpTo(n, all) # << >> }
            /\ \A i, j \in 1..Len(desc) : desc[i].package = desc[j].package => i = j
            /\ \A i \in 1..Len(desc) :
                  /\ desc[i].pos = all
                  /\ desc[i].resources = AssignedUpTo(desc[i].package, all)
                  /\ \A k \in 1..Len(desc[i].resources) :
                        desc[i].resources[k].filename # None
            /\ \A i, j \in 1..Len(writes) :
                  (i < j /\ IsDescriptor(writes[i])) => IsDescriptor(writes[j])

\* the example of the specification: a rule for one kind, two documents, two
\* descriptors, the one of "c" with resource 0 and the one of "m" with resource 1
C7_Witness ==
    /\ exit = "OK"
    /\ Len(manifests) = 2
    /\ \E i, j \in 1..Len(writes) :
          /\ IsDescriptor(writes[i])
          /\ IsDescriptor(writes[j])
          /\ writes[i].package = <<"c">>
          /\ writes[j].package = <<"m">>
          /\ Len(writes[i].resources) = 1
          /\ Len(writes[j].resources) = 1
          /\ writes[i].resources[1].index = 0
          /\ writes[j].resources[1].index = 1

\* C9 as stated: no entry of the accumulator has an empty resource list, in
\* any state.
C9_NeverEmpty ==
    \A p \in DOMAIN packages : packages[p].resources # << >>

\* C9 amended: an entry has an empty resource list only while the first
\* resource classified to its name is between the insertion of the entry and
\* its push (its filename and path are being rendered), or after that render
\* aborted the run; between documents, in the descriptor pass and at
\* completion no entry is empty.
C9_EmptyOnlyUntilPush ==
    \A p \in DOMAIN packages :
        packages[p].resources = << >> =>
            /\ package_name = Some(p)
            /\ resource # None
            /\ \/ pc \in {"render", "push"}
               \/ /\ pc = "done"
                  /\ exit = "PANIC"
                  /\ Unwrap(resource).filename = None

\* a render failure has ended the run and left an entry without resources
C9_Witness ==
    /\ pc = "done"
    /\ exit = "PANIC"
    /\ \E p \in DOMAIN packages : packages[p].resources = << >>

C10_Placed ==
    /\ \A p \in DOMAIN packages :
          /\ packages[p].name = p
          /\ \A i, j \in 1..Len(packages[p].resources) :
                i < j => packages[p].resources[i].index < packages[p].resources[j].index
          /\ \A i \in 1..Len(packages[p].resources) :
                LET r == packages[p].resources[i]
                IN  /\ r.index < pos
                    /\ ResourceOfDocument(r.index) # None
                    /\ classify(config, Unwrap(ResourceOfDocument(r.index))) = Some(p)
                    /\ r.filename # None
                    /\ r.path # None
    /\ \A p, q \in DOMAIN packages :
          p # q => \A i \in 1..Len(packages[p].resources) :
                     \A j \in 1..Len(packages[q].resources) :
                        packages[p].resources[i].index # packages[q].resources[j].index
    /\ pc \in {"loop", "descriptors"} =>
          \A n \in PackageNames :
             IF AssignedUpTo(n, pos) = << >>
             THEN n \notin DOMAIN packages
             ELSE n \in DOMAIN packages /\ packages[n].resources = AssignedUpTo(n, pos)
    /\ resource # None =>
          /\ pc \in {"classify", "lookup", "render"} =>
                Unwrap(resource).filename = None /\ Unwrap(resource).path = None
          /\ pc \in {"push", "mkdir", "write"} =>
                Unwrap(resource).filename # None /\ Unwrap(resource).path # None

C10_Kept ==
    \A p \in DOMAIN packages :
        /\ p \in DOMAIN packages'
        /\ Len(packages'[p].resources) >= Len(packages[p].resources)
        /\ SubSeq(packages'[p].resources, 1, Len(packages[p].resources))
             = packages[p].resources

\* C10: after any prefix of the documents, a resource is in at most one
\* package and once, the package classify returned for it; skipped and
\* dropped documents are in none; every list is in document order; filename
\* and path are unset until the step before the push, set from then on, and a
\* resource in a list is never changed or removed.
C10_OnePackageInOrder == []C10_Placed /\ [][C10_Kept]_vars

\* a package holds the resources of documents 0 and 2, document 1 is in none
C10_Witness ==
    /\ pc = "loop"
    /\ pos = 3
    /\ \E p \in DOMAIN packages :
          /\ Len(packages[p].resources) = 2
          /\ packages[p].resources[1].index = 0
          /\ packages[p].resources[2].index = 2

====
